---- MODULE Spec2Model ----
(***************************************************************************)
(* State-machine model of GwmClient (src/src/client.ts): four callback     *)
(* registries, request/reply correlation by command value                  *)
(* (sendAndWaitReply), event subscriptions (subscribe) and the fan-out of  *)
(* the four transport notifications.                                       *)
(*                                                                         *)
(* JavaScript runs to completion: a transport notification handler is a    *)
(* forEach over one registry.  The pass is modelled step by step (one      *)
(* callback invocation per step) only so that user code running inside a   *)
(* callback can call back into the client; while a pass is active nothing  *)
(* but the pass and such re-entrant calls can run.  Promise reactions      *)
(* (the finally clean-up of sendAndWaitReply, the continuation of          *)
(* subscribe after its await) are microtasks: they run only when no pass   *)
(* is active.                                                              *)
(***************************************************************************)
EXTENDS Integers, Sequences, FiniteSets, TLC

\* ---------------------------------------------------------------- bounds
MaxRegs == 3
MaxNotifs == 2
MaxOps == 2
MaxMessages == 3
MaxSubOps == 1
MaxSubMessages == 3
MaxSteps == 4
MaxSends == 2
MaxSubs == 2
MaxOverlapMessages == 3

\* ------------------------------------------------------------ input sets
\* Callback references user code passes to onMessage/onConnect/... and
\* subscribe.
Callbacks == {1, 2}

\* Plain commands (getMonitors, getWindows use these).
Commands == {"monitors", "windows"}

\* Event-type tags (GwmEvent values) and the tags an inbound event may carry.
Tags == {"focus", "move", "other"}

\* Arguments of subscribe: a single tag or an array of tags.
EventInputs ==
  { [isArray |-> FALSE, single |-> "focus", list |-> <<>>],
    [isArray |-> TRUE, single |-> "", list |-> <<"focus", "move">>] }

Undefined == "<undefined>"
Errors == {Undefined, "", "bad event"}

RegistryNames == {"message", "connect", "disconnect", "error"}

\* ------------------------------------------------------- pure functions
\* Array.prototype.join(',')
RECURSIVE join(_)
join(arr) ==
  IF Len(arr) = 0 THEN ""
  ELSE IF Len(arr) = 1 THEN arr[1]
  ELSE arr[1] \o "," \o join(Tail(arr))

\* Array.isArray(event) ? event : [event]
eventsArr(event) == IF event.isArray THEN event.list ELSE <<event.single>>

\* `subscribe -e ${eventsArr.join(',')}`
subscribeCommand(event) == "subscribe -e " \o join(eventsArr(event))

\* Array.prototype.includes
includes(arr, x) == \E i \in 1..Len(arr) : arr[i] = x

\* Mutant: the error of the response is never looked at.
truthyNever(e) == FALSE

\* JavaScript truthiness of response.error (a string or undefined).
truthy(e) == e /= Undefined /\ e /= ""

\* Callback references held by the registries.
User(c) == [kind |-> "user", id |-> c]
Temp(k) == [kind |-> "temp", id |-> k]
Sub(s) == [kind |-> "sub", id |-> s]

\* Server messages.  data.type is the event-type tag of a subscribed_event.
NoMsg ==
  [serial |-> 0, messageType |-> "none", clientMessage |-> "", error |-> Undefined,
   data |-> [type |-> ""]]

ClientResponse(n, c, e) ==
  [serial |-> n, messageType |-> "client_response", clientMessage |-> c, error |-> e,
   data |-> [type |-> ""]]

SubscribedEvent(n, t) ==
  [serial |-> n, messageType |-> "subscribed_event", clientMessage |-> "",
   error |-> Undefined, data |-> [type |-> t]]

OtherMessage(n) ==
  [serial |-> n, messageType |-> "other", clientMessage |-> "", error |-> Undefined,
   data |-> [type |-> ""]]

SubscribeCommands == { subscribeCommand(e) : e \in EventInputs }

\* A command no call of the model issues (getWorkspaces): a reply to it
\* matches no pending request.
UnrelatedCommand == "workspaces"

\* ----------------------------------------------------------------- state
VARIABLES
  onMessageCallbacks,     \* _onMessageCallbacks
  onConnectCallbacks,     \* _onConnectCallbacks
  onDisconnectCallbacks,  \* _onDisconnectCallbacks
  onErrorCallbacks,       \* _onErrorCallbacks
  sent,                   \* messages handed to _socket.send, in order, accepted or not
  closed,                 \* whether _socket.close() has been called
  options,                \* the constructor argument (this.options)
  url,                    \* the address _socket was opened on
  calls,                  \* the sendAndWaitReply calls made so far
  subs,                   \* the subscribe calls made so far
  pass,                   \* the forEach pass of the current/last notification
  invoked,                \* callbacks invoked by that pass, in order, with the message passed
  fired,                  \* subscribe callbacks invoked by that pass, with data
  handles,                \* unsubscribe handles user code holds: <<registry, callback>>
  raised,                 \* errors raised so far by clean-up steps and handles
  nRegs,                  \* registrations made by user code so far
  nNotifs                 \* transport notifications so far

vars ==
  <<onMessageCallbacks, onConnectCallbacks, onDisconnectCallbacks, onErrorCallbacks,
    sent, closed, options, url, calls, subs, pass, invoked, fired, handles, raised, nRegs, nNotifs>>

registries ==
  <<onMessageCallbacks, onConnectCallbacks, onDisconnectCallbacks, onErrorCallbacks>>

Registry(r) ==
  CASE r = "message" -> onMessageCallbacks
    [] r = "connect" -> onConnectCallbacks
    [] r = "disconnect" -> onDisconnectCallbacks
    [] r = "error" -> onErrorCallbacks

\* No pass: the state before the first notification and after a pass record
\* has been dropped.  start is the four registries as they were when the pass
\* began (history).
IdlePass ==
  [active |-> FALSE, kind |-> "none", data |-> NoMsg, snap |-> <<>>, idx |-> 1,
   inUser |-> FALSE, start |-> <<>>]

\* ---------------------------------------------------------- construction
\* Default port used by GlazeWM for IPC server.
DEFAULT_PORT == 6123

\* The constructor arguments considered: no options, or options with a port
\* (GwmClientOptions.port is a number; 0 is the falsy one).
NoOptions == [given |-> FALSE]
Ports == {7000, 0}
OptionInputs == {NoOptions} \cup { [given |-> TRUE, port |-> p] : p \in Ports }

\* Mutant: the default is chosen with || instead of ??, so a falsy port
\* falls back to the default as well.
socketUrlFalsyDefault(opts) ==
  LET port == IF ~opts.given \/ opts.port = 0 THEN DEFAULT_PORT ELSE opts.port
  IN  "ws://localhost:" \o ToString(port)

\* `ws://localhost:${this.options?.port ?? this.DEFAULT_PORT}`: options?.port
\* is undefined exactly when options is; ?? replaces only undefined and null.
socketUrl(opts) ==
  LET port == IF ~opts.given THEN DEFAULT_PORT ELSE opts.port
  IN  "ws://localhost:" \o ToString(port)

\* new GwmClient(opts): the parameter property options is assigned first,
\* then the field initialisers run in declaration order (DEFAULT_PORT, the
\* socket, the four empty registries), then the constructor body wires the
\* four notification slots.
constructor(opts) ==
  /\ options = opts
  /\ url = socketUrl(opts)
  /\ onMessageCallbacks = <<>>
  /\ onConnectCallbacks = <<>>
  /\ onDisconnectCallbacks = <<>>
  /\ onErrorCallbacks = <<>>
  /\ sent = <<>>
  /\ closed = FALSE
  /\ calls = <<>>
  /\ subs = <<>>
  /\ pass = IdlePass
  /\ invoked = <<>>
  /\ fired = <<>>
  /\ handles = {}
  /\ raised = {}
  /\ nRegs = 0
  /\ nNotifs = 0

\* new GwmClient()
Init == constructor(NoOptions)

\* new GwmClient(opts) for every constructor argument considered.
InitConstruct == \E opts \in OptionInputs : constructor(opts)

\* The inbound messages the transport may deliver as its n-th notification:
\* replies (with or without an error) to the commands requested so far and to
\* an unrelated one, subscribed events of every tag, and a message of another
\* kind.
Replies(n) ==
  { ClientResponse(n, c, Undefined) :
      c \in { calls[k].message : k \in 1..Len(calls) } \cup {UnrelatedCommand} }
    \cup { ClientResponse(n, subs[s].command, e) : s \in 1..Len(subs), e \in Errors }

EventMessages(n) == { SubscribedEvent(n, t) : t \in Tags } \cup { OtherMessage(n) }

InboundMessages(n) == Replies(n) \cup EventMessages(n)

\* For plain requests every subscribed event is the same kind of noise.
RequestMessages(n) == Replies(n) \cup { SubscribedEvent(n, "focus"), OtherMessage(n) }

\* The record of a finished pass is dropped by the next step.
DropPass ==
  IF pass.active
  THEN UNCHANGED <<pass, invoked, fired>>
  ELSE pass' = IdlePass /\ invoked' = <<>> /\ fired' = <<>>

\* User code runs in its own task or microtask (no pass active) or inside a
\* callback the current pass has just invoked.
UserCanRun == ~pass.active \/ pass.inUser

\* Promise reactions run when the stack is empty.
MicrotaskCanRun == ~pass.active

\* The continuation of a subscribe whose awaited promise has settled is
\* queued in the same microtask drain as the finally that settled it; the
\* transport cannot notify before the drain ends.
ResumePending ==
  \E s \in 1..Len(subs) :
    subs[s].st = "awaiting" /\ calls[subs[s].call].st \in {"done", "rejected"}

\* ---------------------------------------------------- registry operations
\* this._onXCallbacks.push(callback)
push(reg, callback) == Append(reg, callback)

\* Mutant: removal by position, reg.splice(reg.indexOf(callback), 1): one
\* entry goes, and when the callback is absent (index -1) the last entry goes.
filterSplice(reg, callback) ==
  LET at == { i \in 1..Len(reg) : reg[i] = callback }
      gone == IF at = {} THEN Len(reg) ELSE CHOOSE i \in at : \A j \in at : i <= j
  IN  [i \in 1..(IF Len(reg) = 0 THEN 0 ELSE Len(reg) - 1) |->
         IF i < gone THEN reg[i] ELSE reg[i + 1]]

\* Mutant: the comparison inverted, (cb) => cb === callback.
filterInverted(reg, callback) == SelectSeq(reg, LAMBDA cb : cb = callback)

\* this._onXCallbacks.filter((cb) => cb !== callback)
filter(reg, callback) == SelectSeq(reg, LAMBDA cb : cb /= callback)

SetRegistry(r, v) ==
  /\ onMessageCallbacks' = IF r = "message" THEN v ELSE onMessageCallbacks
  /\ onConnectCallbacks' = IF r = "connect" THEN v ELSE onConnectCallbacks
  /\ onDisconnectCallbacks' = IF r = "disconnect" THEN v ELSE onDisconnectCallbacks
  /\ onErrorCallbacks' = IF r = "error" THEN v ELSE onErrorCallbacks

\* Every open call notes that the message registry was changed by someone
\* else (history for the round-trip claims).
Touch(cs) == [k \in 1..Len(cs) |-> [cs[k] EXCEPT !.clean = FALSE]]

\* onMessage / onConnect / onDisconnect / onError (callback) by user code.
Register(r, c) ==
  /\ UserCanRun
  /\ SetRegistry(r, push(Registry(r), User(c)))
  /\ handles' = handles \cup {<<r, c>>}
  /\ nRegs' = nRegs + 1
  /\ calls' = IF r = "message" THEN Touch(calls) ELSE calls
  /\ DropPass
  /\ UNCHANGED <<sent, closed, options, url, subs, raised, nNotifs>>

onMessage == \E c \in Callbacks : Register("message", c)
onConnect == \E c \in Callbacks : Register("connect", c)
onDisconnect == \E c \in Callbacks : Register("disconnect", c)
onError == \E c \in Callbacks : Register("error", c)

\* Invoking the handle a registration of user callback c returned.
Unlisten(r, c) ==
  /\ UserCanRun
  /\ <<r, c>> \in handles
  /\ SetRegistry(r, filter(Registry(r), User(c)))
  /\ calls' = IF r = "message" THEN Touch(calls) ELSE calls
  /\ DropPass
  /\ UNCHANGED <<sent, closed, options, url, subs, handles, raised, nRegs, nNotifs>>

UnlistenFn == \E r \in RegistryNames, c \in Callbacks : Unlisten(r, c)

\* ------------------------------------------------------------ transport
\* Mutant: the message is handed to the transport twice.
socketSendTwice(out, message, k, listening, ok) ==
  LET entry == [message |-> message, call |-> k, listening |-> listening,
                accepted |-> ok]
  IN  Append(Append(out, entry), entry)

\* this._socket.send(message): the message is handed to the transport, which
\* either accepts it or throws (a WebSocket that is still connecting throws
\* on send).  The entry records the call the message belongs to (0 for a
\* plain send) and whether that call's listener was registered at that moment.
socketSend(out, message, k, listening, ok) ==
  Append(out, [message |-> message, call |-> k, listening |-> listening,
               accepted |-> ok])

\* send(message), fire-and-forget.
send(message, ok) ==
  /\ UserCanRun
  /\ sent' = socketSend(sent, message, 0, FALSE, ok)
  /\ DropPass
  /\ UNCHANGED <<registries, closed, options, url, calls, subs, handles, raised,
                 nRegs, nNotifs>>

Send == \E c \in Commands, ok \in BOOLEAN : send(c, ok)

\* Mutant: close also tears the listeners down.
CloseClearingRegistries ==
  /\ UserCanRun
  /\ closed' = TRUE
  /\ onMessageCallbacks' = <<>>
  /\ onConnectCallbacks' = <<>>
  /\ onDisconnectCallbacks' = <<>>
  /\ onErrorCallbacks' = <<>>
  /\ DropPass
  /\ UNCHANGED <<sent, options, url, calls, subs, handles, raised, nRegs, nNotifs>>

\* close()
Close ==
  /\ UserCanRun
  /\ closed' = TRUE
  /\ DropPass
  /\ UNCHANGED <<registries, sent, options, url, calls, subs, handles, raised,
                 nRegs, nNotifs>>

\* ------------------------------------------------------ sendAndWaitReply
NewCall(message, st, unlistenSet, regBefore, owner) ==
  [message |-> message, st |-> st, val |-> NoMsg, unlisten |-> unlistenSet,
   owner |-> owner, firstMatch |-> 0, regBefore |-> regBefore,
   clean |-> TRUE]

\* The promise executor of sendAndWaitReply, run synchronously by the call:
\* first this.send(message), then unlisten = this.onMessage(listener).  When
\* send throws, the executor stops there: the promise is rejected, no listener
\* exists and unlisten stays unassigned.
executor(message, ok, owner) ==
  LET k == Len(calls) + 1
      out == socketSend(sent, message, k, includes(onMessageCallbacks, Temp(k)), ok)
  IN  IF ok
      THEN /\ sent' = out
           /\ onMessageCallbacks' = push(onMessageCallbacks, Temp(k))
           /\ calls' = Append(Touch(calls),
                              NewCall(message, "pending", TRUE, onMessageCallbacks, owner))
      ELSE /\ sent' = out
           /\ onMessageCallbacks' = onMessageCallbacks
           /\ calls' = Append(calls,
                              NewCall(message, "sendFailed", FALSE, onMessageCallbacks, owner))

sendAndWaitReply(message, ok) ==
  /\ UserCanRun
  /\ executor(message, ok, 0)
  /\ DropPass
  /\ UNCHANGED <<onConnectCallbacks, onDisconnectCallbacks, onErrorCallbacks, closed, options, url, subs,
                 handles, raised, nRegs, nNotifs>>

SendAndWaitReply ==
  \E c \in Commands, ok \in BOOLEAN : sendAndWaitReply(c, ok)

\* Mutant: the listener checks the kind of the message only.
matchesKindOnly(message, msg) == msg.messageType = "client_response"

\* The listener sendAndWaitReply registers.
matches(message, msg) ==
  msg.messageType = "client_response" /\ msg.clientMessage = message

\* resolve(msg): settling an already settled promise does nothing.
resolve(call, msg) ==
  IF call.st = "pending" THEN [call EXCEPT !.st = "resolved", !.val = msg] ELSE call

\* Mutant: the listener resolves with whatever message comes first.
replyListenerAny(call, msg) == resolve(call, msg)

replyListener(call, msg) == IF matches(call.message, msg) THEN resolve(call, msg) ELSE call

TypeErrorUnlisten == "TypeError: unlisten is not a function"

\* .finally(() => unlisten()): a promise reaction, run once the promise has
\* settled.  unlisten is the handle of the call's own listener, or still
\* undefined when the executor threw before assigning it.
finallyUnlisten(k) ==
  IF calls[k].unlisten
  THEN /\ onMessageCallbacks' = filter(onMessageCallbacks, Temp(k))
       /\ calls' = [j \in 1..Len(calls) |->
                      IF j = k THEN [calls[j] EXCEPT !.st = "done"]
                      ELSE [calls[j] EXCEPT !.clean = FALSE]]
       /\ raised' = raised
  ELSE /\ onMessageCallbacks' = onMessageCallbacks
       /\ calls' = [calls EXCEPT ![k].st = "rejected"]
       /\ raised' = raised \cup {TypeErrorUnlisten}

Finally(k) ==
  /\ MicrotaskCanRun
  /\ calls[k].st \in {"resolved", "sendFailed"}
  /\ finallyUnlisten(k)
  /\ DropPass
  /\ UNCHANGED <<onConnectCallbacks, onDisconnectCallbacks, onErrorCallbacks, sent, closed, options, url,
                 subs, handles, nRegs, nNotifs>>

FinallyStep == \E k \in 1..Len(calls) : Finally(k)

\* -------------------------------------------------------------- subscribe
\* subscribe(event, callback) up to its await: the request is issued.
subscribe(event, callback, ok) ==
  /\ UserCanRun
  /\ executor(subscribeCommand(event), ok, Len(subs) + 1)
  /\ subs' = Append(subs, [event |-> event, eventsArr |-> eventsArr(event),
                           callback |-> callback, command |-> subscribeCommand(event),
                           call |-> Len(calls) + 1, st |-> "awaiting",
                           unlistened |-> FALSE])
  /\ DropPass
  /\ UNCHANGED <<onConnectCallbacks, onDisconnectCallbacks, onErrorCallbacks, closed, options, url, handles, raised, nRegs, nNotifs>>

Subscribe ==
  \E e \in EventInputs, c \in Callbacks, ok \in BOOLEAN : subscribe(e, c, ok)

\* subscribe after its await: a rejected request rejects the subscribe; a
\* response with a truthy error throws; otherwise the permanent listener is
\* registered and its handle returned.
resumeSubscribe(s) ==
  LET call == calls[subs[s].call]
  IN  IF call.st = "rejected" \/ truthy(call.val.error)
      THEN /\ subs' = [subs EXCEPT ![s].st = "rejected"]
           /\ onMessageCallbacks' = onMessageCallbacks
           /\ calls' = calls
      ELSE /\ subs' = [subs EXCEPT ![s].st = "subscribed"]
           /\ onMessageCallbacks' = push(onMessageCallbacks, Sub(s))
           /\ calls' = Touch(calls)

\* Mutant: subscribe does not await its request: the continuation runs
\* whether or not the reply has arrived.
ResumeWithoutAwait(s) ==
  /\ MicrotaskCanRun
  /\ subs[s].st = "awaiting"
  /\ resumeSubscribe(s)
  /\ DropPass
  /\ UNCHANGED <<onConnectCallbacks, onDisconnectCallbacks, onErrorCallbacks, sent, closed, options, url,
                 handles, raised, nRegs, nNotifs>>

Resume(s) ==
  /\ MicrotaskCanRun
  /\ subs[s].st = "awaiting"
  /\ calls[subs[s].call].st \in {"done", "rejected"}
  /\ resumeSubscribe(s)
  /\ DropPass
  /\ UNCHANGED <<onConnectCallbacks, onDisconnectCallbacks, onErrorCallbacks, sent, closed, options, url,
                 handles, raised, nRegs, nNotifs>>

ResumeStep == \E s \in 1..Len(subs) : Resume(s)

\* Mutant: the listener forgets the membership test on the event type.
eventListenerAnyType(sub, msg) == msg.messageType = "subscribed_event"

\* The listener subscribe registers.
eventListener(sub, msg) ==
  msg.messageType = "subscribed_event" /\ includes(sub.eventsArr, msg.data.type)

\* Mutant: the handle removes the listeners by callback reference, so it
\* takes every subscription of the same callback with it.
UnlistenSubByCallback(s) ==
  /\ UserCanRun
  /\ subs[s].st = "subscribed"
  /\ onMessageCallbacks' =
       SelectSeq(onMessageCallbacks,
                 LAMBDA cb : ~(cb.kind = "sub" /\ subs[cb.id].callback = subs[s].callback))
  /\ subs' = [subs EXCEPT ![s].unlistened = TRUE]
  /\ calls' = Touch(calls)
  /\ DropPass
  /\ UNCHANGED <<onConnectCallbacks, onDisconnectCallbacks, onErrorCallbacks, sent, closed, options, url,
                 handles, raised, nRegs, nNotifs>>

\* Mutant: the handle also tells the server to stop sending the events.
UnlistenSubNotifyingServer(s) ==
  /\ UserCanRun
  /\ subs[s].st = "subscribed"
  /\ onMessageCallbacks' = filter(onMessageCallbacks, Sub(s))
  /\ subs' = [subs EXCEPT ![s].unlistened = TRUE]
  /\ calls' = Touch(calls)
  /\ sent' = socketSend(sent, "unsubscribe", 0, FALSE, TRUE)
  /\ DropPass
  /\ UNCHANGED <<onConnectCallbacks, onDisconnectCallbacks, onErrorCallbacks, closed, options, url,
                 handles, raised, nRegs, nNotifs>>

\* Invoking the handle subscribe returned.
UnlistenSub(s) ==
  /\ UserCanRun
  /\ subs[s].st = "subscribed"
  /\ onMessageCallbacks' = filter(onMessageCallbacks, Sub(s))
  /\ subs' = [subs EXCEPT ![s].unlistened = TRUE]
  /\ calls' = Touch(calls)
  /\ DropPass
  /\ UNCHANGED <<onConnectCallbacks, onDisconnectCallbacks, onErrorCallbacks, sent, closed, options, url,
                 handles, raised, nRegs, nNotifs>>

UnlistenSubscription == \E s \in 1..Len(subs) : UnlistenSub(s)

\* ---------------------------------------------------------------- fan-out
\* Mutant: the listeners are visited last-registered first.
forEachBeginReversed(kind, reg, data) ==
  [active |-> Len(reg) > 0, kind |-> kind, data |-> data,
   snap |-> [i \in 1..Len(reg) |-> reg[Len(reg) + 1 - i]], idx |-> 1,
   inUser |-> FALSE, start |-> registries]

\* registry.forEach(...) starts: the array and its length are read once.
forEachBegin(kind, reg, data) ==
  [active |-> Len(reg) > 0, kind |-> kind, data |-> data, snap |-> reg, idx |-> 1,
   inUser |-> FALSE, start |-> registries]

\* A transport notification arrives.  It never interrupts a running pass.  A
\* transport that emits several events from one turn of the event loop can
\* deliver the next one before the promise reactions of the previous one have
\* run, so a settled request whose finally is still queued does not hold a
\* notification back; the continuation of a subscribe does (ResumePending).
Notify(kind, reg, data) ==
  /\ ~pass.active
  /\ ~ResumePending
  /\ nNotifs' = nNotifs + 1
  /\ pass' = forEachBegin(kind, reg, data)
  /\ invoked' = <<>>
  /\ fired' = <<>>

\* _socket.onmessage
SocketOnMessage(msg) ==
    /\ Notify("message", onMessageCallbacks, msg)
    /\ calls' = [k \in 1..Len(calls) |->
                   IF calls[k].firstMatch = 0
                        /\ msg.messageType = "client_response"
                        /\ msg.clientMessage = calls[k].message
                   THEN [calls[k] EXCEPT !.firstMatch = msg.serial]
                   ELSE calls[k]]
    /\ UNCHANGED <<registries, sent, closed, options, url, subs, handles, raised, nRegs>>

Event(n, kind) == [NoMsg EXCEPT !.serial = n, !.messageType = kind]

\* _socket.onopen
SocketOnOpen ==
  /\ Notify("open", onConnectCallbacks, Event(nNotifs + 1, "open"))
  /\ UNCHANGED <<registries, sent, closed, options, url, calls, subs, handles, raised, nRegs>>

\* Mutant: a transport failure gives up the pending requests: they are
\* rejected and their listeners dropped.
SocketOnErrorRejectingPending ==
  /\ Notify("error", onErrorCallbacks, Event(nNotifs + 1, "error"))
  /\ calls' = [k \in 1..Len(calls) |->
                 IF calls[k].st = "pending"
                 THEN [calls[k] EXCEPT !.st = "rejected"]
                 ELSE calls[k]]
  /\ onMessageCallbacks' = SelectSeq(onMessageCallbacks, LAMBDA cb : cb.kind /= "temp")
  /\ UNCHANGED <<onConnectCallbacks, onDisconnectCallbacks, onErrorCallbacks, sent, closed,
                 options, url, subs, handles, raised, nRegs>>

\* Mutant: the error slot is wired to the message listeners.
SocketOnErrorToMessageListeners ==
  /\ Notify("error", onMessageCallbacks, Event(nNotifs + 1, "error"))
  /\ UNCHANGED <<registries, sent, closed, options, url, calls, subs, handles, raised, nRegs>>

\* _socket.onerror
SocketOnError ==
  /\ Notify("error", onErrorCallbacks, Event(nNotifs + 1, "error"))
  /\ UNCHANGED <<registries, sent, closed, options, url, calls, subs, handles, raised, nRegs>>

\* _socket.onclose
SocketOnClose ==
  /\ Notify("close", onDisconnectCallbacks, Event(nNotifs + 1, "close"))
  /\ UNCHANGED <<registries, sent, closed, options, url, calls, subs, handles, raised, nRegs>>

\* Mutant: the fan-out stops at the first listener that resolves its request
\* (a find/some instead of forEach).
forEachStepFirstWins ==
  LET cb == pass.snap[pass.idx]
      msg == pass.data
      won == cb.kind = "temp" /\ calls[cb.id].st = "pending" /\ matches(calls[cb.id].message, msg)
      more == ~won /\ pass.idx + 1 <= Len(pass.snap)
  IN  /\ pass.active
      /\ invoked' = Append(invoked, [cb |-> cb, arg |-> msg.serial])
      /\ calls' = IF cb.kind = "temp"
                  THEN [calls EXCEPT ![cb.id] = replyListener(calls[cb.id], msg)]
                  ELSE calls
      /\ fired' = fired
      /\ pass' = [pass EXCEPT !.idx = pass.idx + 1, !.active = more,
                              !.inUser = cb.kind = "user" /\ more]
      /\ UNCHANGED <<registries, sent, closed, options, url, subs, handles, raised, nRegs, nNotifs>>

\* Mutant: the pass is an index loop over the registry field, re-reading the
\* field and its length at every iteration.
forEachStepLive ==
  LET live == CASE pass.kind = "message" -> onMessageCallbacks
                [] pass.kind = "open" -> onConnectCallbacks
                [] pass.kind = "close" -> onDisconnectCallbacks
                [] OTHER -> onErrorCallbacks
      msg == pass.data
  IN  /\ pass.active
      /\ IF pass.idx > Len(live)
         THEN /\ pass' = [pass EXCEPT !.active = FALSE, !.inUser = FALSE]
              /\ UNCHANGED <<invoked, calls, fired>>
         ELSE LET cb == live[pass.idx]
                  hit == cb.kind = "sub" /\ eventListener(subs[cb.id], msg)
              IN  /\ invoked' = Append(invoked, [cb |-> cb, arg |-> msg.serial])
                  /\ calls' = IF cb.kind = "temp"
                              THEN [calls EXCEPT ![cb.id] = replyListener(calls[cb.id], msg)]
                              ELSE calls
                  /\ fired' = IF hit
                              THEN Append(fired, [sub |-> cb.id,
                                                  callback |-> subs[cb.id].callback,
                                                  data |-> msg.data])
                              ELSE fired
                  /\ pass' = [pass EXCEPT !.idx = pass.idx + 1,
                                          !.active = pass.idx + 1 <= Len(live),
                                          !.inUser = (cb.kind = "user" \/ hit)
                                                       /\ pass.idx + 1 <= Len(live)]
      /\ UNCHANGED <<registries, sent, closed, options, url, subs, handles, raised, nRegs, nNotifs>>

\* One iteration of forEach: callback(e.data) for the next entry of the array
\* the pass started on.
forEachStep ==
  LET cb == pass.snap[pass.idx]
      msg == pass.data
      hit == cb.kind = "sub" /\ eventListener(subs[cb.id], msg)
  IN  /\ pass.active
      /\ invoked' = Append(invoked, [cb |-> cb, arg |-> msg.serial])
      /\ calls' = IF cb.kind = "temp"
                  THEN [calls EXCEPT ![cb.id] = replyListener(calls[cb.id], msg)]
                  ELSE calls
      /\ fired' = IF hit
                  THEN Append(fired, [sub |-> cb.id, callback |-> subs[cb.id].callback,
                                      data |-> msg.data])
                  ELSE fired
      /\ pass' = [pass EXCEPT !.idx = pass.idx + 1,
                              !.active = pass.idx + 1 <= Len(pass.snap),
                              !.inUser = (cb.kind = "user" \/ hit)
                                           /\ pass.idx + 1 <= Len(pass.snap)]
      /\ UNCHANGED <<registries, sent, closed, options, url, subs, handles, raised, nRegs, nNotifs>>

\* ------------------------------------------------------- specifications
\* Registries and fan-out: registrations in the four registries, their
\* handles, the four transport notifications, close.
RegistryBudget == nRegs < MaxRegs
NotifyBudget == nNotifs < MaxNotifs

NextRegistry ==
  \/ (RegistryBudget /\ onMessage)
  \/ (RegistryBudget /\ onConnect)
  \/ (RegistryBudget /\ onDisconnect)
  \/ (RegistryBudget /\ onError)
  \/ UnlistenFn
  \/ Close
  \/ (NotifyBudget /\ \E msg \in EventMessages(nNotifs + 1) : SocketOnMessage(msg))
  \/ (NotifyBudget /\ SocketOnOpen)
  \/ (NotifyBudget /\ SocketOnError)
  \/ (NotifyBudget /\ SocketOnClose)
  \/ forEachStep

SpecRegistry == Init /\ [][NextRegistry]_vars

\* Requests: sendAndWaitReply and its clean-up, message listeners of user
\* code next to the temporary ones, inbound messages.
OpsBudget == nRegs + Len(calls) < MaxOps
MessageBudget == nNotifs < MaxMessages

NextRequest ==
  \/ (OpsBudget /\ SendAndWaitReply)
  \/ FinallyStep
  \/ (OpsBudget /\ onMessage)
  \/ UnlistenFn
  \/ (MessageBudget /\ \E msg \in RequestMessages(nNotifs + 1) : SocketOnMessage(msg))
  \/ forEachStep

SpecRequest == Init /\ [][NextRequest]_vars

\* Subscriptions: subscribe, its request and continuation, its handle,
\* inbound messages.
SubscribeBudget == nRegs + Len(subs) < MaxSubOps

NextSubscribe ==
  \/ (SubscribeBudget /\ Subscribe)
  \/ FinallyStep
  \/ ResumeStep
  \/ UnlistenSubscription
  \/ (SubscribeBudget /\ onMessage)
  \/ UnlistenFn
  \/ (nNotifs < MaxSubMessages /\ \E msg \in InboundMessages(nNotifs + 1) : SocketOnMessage(msg))
  \/ forEachStep

SpecSubscribe == Init /\ [][NextSubscribe]_vars

\* Life cycle: requests and subscriptions in flight while the transport
\* fails or is closed.  A step is a registration, a message handed to the
\* transport, close, or a transport notification; the request is always for
\* the same command and the subscription for the same event and callback, and
\* the message listeners are those of the requests and subscriptions.
Steps == nRegs + Len(sent) + nNotifs + (IF closed THEN 1 ELSE 0)
StepBudget == Steps < MaxSteps
FocusEvent == CHOOSE e \in EventInputs : ~e.isArray

NextLifecycle ==
  \/ (StepBudget /\ \E ok \in BOOLEAN : sendAndWaitReply("monitors", ok))
  \/ (StepBudget /\ \E ok \in BOOLEAN : subscribe(FocusEvent, 1, ok))
  \/ FinallyStep
  \/ ResumeStep
  \/ UnlistenSubscription
  \/ (StepBudget /\ onDisconnect)
  \/ (StepBudget /\ onError)
  \/ UnlistenFn
  \/ (StepBudget /\ Close)
  \/ (StepBudget /\ \E msg \in RequestMessages(nNotifs + 1) : SocketOnMessage(msg))
  \/ (StepBudget /\ SocketOnError)
  \/ (StepBudget /\ SocketOnClose)
  \/ forEachStep

SpecLifecycle == Init /\ [][NextLifecycle]_vars

\* Outbound traffic: plain sends next to requests, and the replies.
SendBudget == Len(sent) < MaxSends

NextSend ==
  \/ (SendBudget /\ Send)
  \/ (SendBudget /\ SendAndWaitReply)
  \/ FinallyStep
  \/ (MessageBudget /\ \E msg \in RequestMessages(nNotifs + 1) : SocketOnMessage(msg))
  \/ forEachStep

SpecSend == Init /\ [][NextSend]_vars

\* Construction: a client built with or without options, then connected,
\* used for plain sends and closed.
NextConstruct ==
  \/ (RegistryBudget /\ onConnect)
  \/ UnlistenFn
  \/ (NotifyBudget /\ SocketOnOpen)
  \/ forEachStep
  \/ (SendBudget /\ Send)
  \/ Close

SpecConstruct == InitConstruct /\ [][NextConstruct]_vars

\* Overlapping subscriptions: several subscribe calls with the same callback,
\* their successful replies, events inside and outside the overlap.
OverlapMessages(n) ==
  { ClientResponse(n, subs[s].command, Undefined) : s \in 1..Len(subs) }
    \cup { SubscribedEvent(n, t) : t \in {"focus", "move"} }

NextOverlap ==
  \/ (Len(subs) < MaxSubs /\ \E e \in EventInputs : subscribe(e, 1, TRUE))
  \/ FinallyStep
  \/ ResumeStep
  \/ UnlistenSubscription
  \/ (nNotifs < MaxOverlapMessages
        /\ \E msg \in OverlapMessages(nNotifs + 1) : SocketOnMessage(msg))
  \/ forEachStep

SpecOverlap == Init /\ [][NextOverlap]_vars

\* ------------------------------------------------------------------ claims
CallIds == 1..Len(calls)
Settled(k) == calls[k].st \in {"resolved", "done"}
InSeq(seq, x) == \E i \in 1..Len(seq) : seq[i] = x
Invoked(cb) == \E i \in 1..Len(invoked) : invoked[i].cb = cb
IsReplyTo(msg, message) ==
  msg.messageType = "client_response" /\ msg.clientMessage = message

\* C1: a sendAndWaitReply(c) call resolves with the first message delivered
\* after the call that is a client_response with clientMessage = c, and with
\* nothing else: an unresolved call has no value; a resolved call holds that
\* first matching message and keeps it; a call still pending although such a
\* message has been delivered is only waiting for the running pass to reach
\* its listener.
C1_ResolvesWithFirstMatchingReply ==
  \A k \in CallIds :
    LET call == calls[k]
    IN  /\ ~Settled(k) => call.val = NoMsg
        /\ Settled(k) =>
             /\ IsReplyTo(call.val, call.message)
             /\ call.val.serial = call.firstMatch
        /\ (call.st = "pending" /\ call.firstMatch /= 0) =>
             /\ pass.active
             /\ pass.data.serial = call.firstMatch
             /\ \E i \in pass.idx..Len(pass.snap) : pass.snap[i] = Temp(k)

\* A reply to one request was dispatched to the listeners of two requests:
\* it resolved the request it answers and left the other one pending.
C1_Witness ==
  \E j, k \in CallIds :
    /\ ~pass.active
    /\ Invoked(Temp(j)) /\ Invoked(Temp(k))
    /\ calls[j].st = "resolved" /\ calls[j].val = pass.data
    /\ calls[k].st = "pending" /\ calls[k].message /= calls[j].message

\* C2: two calls with distinct commands never share a reply and never take
\* each other's: each resolved one holds a client_response to its own command.
C2_DistinctCommandsOwnReplies ==
  \A j, k \in CallIds :
    (j /= k /\ calls[j].message /= calls[k].message /\ Settled(j) /\ Settled(k)) =>
      /\ calls[j].val.clientMessage = calls[j].message
      /\ calls[k].val.clientMessage = calls[k].message
      /\ calls[j].val.clientMessage /= calls[k].message
      /\ calls[j].val.serial /= calls[k].val.serial

\* Both requests were pending together and the reply to the later request
\* was delivered first.
C2_Witness ==
  \E j, k \in CallIds :
    /\ j < k /\ calls[j].message /= calls[k].message
    /\ Settled(j) /\ Settled(k)
    /\ calls[k].val.serial < calls[j].val.serial

\* C3 as claimed: one reply satisfies only the first of several pending calls
\* with the same command, so two such calls never hold the same reply.
C3_FirstListenerWins ==
  \A j, k \in CallIds :
    (j < k /\ calls[j].message = calls[k].message /\ Settled(j) /\ Settled(k)) =>
      calls[j].val.serial /= calls[k].val.serial

\* C3 as amended: a reply satisfies every pending call with that command at
\* once. When the pass of a client_response has ended, no call whose listener
\* was in the registry at the start of the pass and whose command equals the
\* reply's clientMessage is still pending, and each of them that had seen no
\* matching reply before holds this very message.
C3_ReplySatisfiesAllSameCommandCalls ==
  (~pass.active /\ pass.kind = "message" /\ pass.data.messageType = "client_response") =>
    \A k \in CallIds :
      (InSeq(pass.snap, Temp(k)) /\ calls[k].message = pass.data.clientMessage) =>
        /\ calls[k].st = "resolved"
        /\ calls[k].firstMatch = pass.data.serial => calls[k].val = pass.data

\* One reply resolved two calls made with the same command.
C3_Witness ==
  \E j, k \in CallIds :
    /\ j < k /\ calls[j].message = calls[k].message
    /\ ~pass.active /\ Invoked(Temp(j)) /\ Invoked(Temp(k))
    /\ calls[j].st = "resolved" /\ calls[k].st = "resolved"
    /\ calls[j].val = pass.data /\ calls[k].val = pass.data

\* C4: after a round trip the call's listener is out of the message registry,
\* and if nobody else registered or unregistered a message listener since the
\* call, the registry is again exactly what it was before the call.
C4_RoundTripRestoresRegistry ==
  \A k \in CallIds :
    calls[k].st = "done" =>
      /\ ~InSeq(onMessageCallbacks, Temp(k))
      /\ calls[k].clean => onMessageCallbacks = calls[k].regBefore

\* A round trip completed over a registry that held another listener.
C4_Witness ==
  \E k \in CallIds :
    /\ calls[k].st = "done" /\ calls[k].clean
    /\ Len(calls[k].regBefore) > 0
    /\ onMessageCallbacks = calls[k].regBefore

\* C5 as claimed: once the clean-up of a call has run, the call had created
\* its one listener, that listener is out of the registry, and the clean-up
\* raised no error.
C5_CleanupUnregistersWithoutError ==
  \A k \in CallIds :
    calls[k].st \in {"done", "rejected"} =>
      /\ calls[k].unlisten
      /\ ~InSeq(onMessageCallbacks, Temp(k))
      /\ raised = {}

SubIds == 1..Len(subs)

\* The set of tags a subscribe call asked for, from its argument.
Requested(event) ==
  IF event.isArray THEN { event.list[i] : i \in 1..Len(event.list) } ELSE {event.single}

\* The positions in fired at which subscription s invoked its callback.
Firings(s) == { i \in 1..Len(fired) : fired[i].sub = s }

\* C6: a successful subscription whose handle has not been used has its
\* listener in the message registry exactly once; and when the pass of an
\* inbound message has ended, every subscription whose listener was in the
\* registry at the start of the pass has invoked its callback exactly once,
\* with that message's data, if the message is a subscribed_event with a tag
\* in the requested set, and not at all otherwise.
C6_SubscribedEventInvokesCallbackOnce ==
  /\ \A s \in SubIds :
       (subs[s].st = "subscribed" /\ ~subs[s].unlistened) =>
         Cardinality({ i \in 1..Len(onMessageCallbacks) : onMessageCallbacks[i] = Sub(s) }) = 1
  /\ (~pass.active /\ pass.kind = "message") =>
       \A s \in SubIds :
         IF /\ InSeq(pass.snap, Sub(s))
            /\ pass.data.messageType = "subscribed_event"
            /\ pass.data.data.type \in Requested(subs[s].event)
         THEN /\ Cardinality(Firings(s)) = 1
              /\ \A i \in Firings(s) :
                   fired[i].data = pass.data.data /\ fired[i].callback = subs[s].callback
         ELSE Firings(s) = {}

\* An event with the second tag of a two-tag subscription invoked its callback.
C6_Witness ==
  \E s \in SubIds :
    /\ ~pass.active /\ pass.kind = "message"
    /\ subs[s].st = "subscribed" /\ Len(subs[s].eventsArr) = 2
    /\ pass.data.messageType = "subscribed_event" /\ pass.data.data.type = "move"
    /\ Cardinality(Firings(s)) = 1

\* C7: a subscribe whose request was answered with a non-empty error is
\* rejected once its continuation has run; its listener is not in the message
\* registry and not in any pass, its callback is not invoked, and if nobody
\* else touched the message registry since the call the registry is what it
\* was before the call.
C7_ErrorReplyRejectsAndRegistersNothing ==
  \A s \in SubIds :
    LET call == calls[subs[s].call]
    IN  (call.st = "done" /\ call.val.error \notin {Undefined, ""} /\ subs[s].st /= "awaiting") =>
          /\ subs[s].st = "rejected"
          /\ ~InSeq(onMessageCallbacks, Sub(s))
          /\ ~InSeq(pass.snap, Sub(s))
          /\ Firings(s) = {}
          /\ call.clean => onMessageCallbacks = call.regBefore

\* After the rejection an event with a requested tag was delivered.
C7_Witness ==
  \E s \in SubIds :
    /\ subs[s].st = "rejected"
    /\ calls[subs[s].call].val.error = "bad event"
    /\ ~pass.active /\ pass.kind = "message"
    /\ pass.data.messageType = "subscribed_event"
    /\ pass.data.data.type \in Requested(subs[s].event)
    /\ pass.data.serial > calls[subs[s].call].val.serial

\* The registry a notification of the given kind fans out to, as it was when
\* the pass began.
StartRegistry(kind) ==
  CASE kind = "message" -> pass.start[1]
    [] kind = "open" -> pass.start[2]
    [] kind = "close" -> pass.start[3]
    [] kind = "error" -> pass.start[4]

NotificationKind(r) ==
  CASE r = "message" -> "message"
    [] r = "connect" -> "open"
    [] r = "disconnect" -> "close"
    [] r = "error" -> "error"

\* C8 as claimed: invoking a handle removes one registration only, so it
\* shortens its registry by at most one entry.
C8_HandleRemovesOnlyItsRegistration ==
  [][\A r \in RegistryNames, c \in Callbacks :
       Unlisten(r, c) => Len(Registry(r)') >= Len(Registry(r)) - 1]_vars

\* C9: invoking a handle leaves its callback out of its registry and raises
\* no error; invoking it when the callback is already out changes none of the
\* four registries; and a notification that begins while the callback is out
\* of its registry does not take it into its pass.
C9_UnlistenIdempotent ==
  /\ [][\A r \in RegistryNames, c \in Callbacks :
          Unlisten(r, c) =>
            /\ ~InSeq(Registry(r)', User(c))
            /\ raised' = raised
            /\ ~InSeq(Registry(r), User(c)) => UNCHANGED registries]_vars
  /\ [][\A r \in RegistryNames, c \in Callbacks :
          (nNotifs' /= nNotifs /\ pass'.kind = NotificationKind(r)
             /\ ~InSeq(Registry(r), User(c))) =>
            ~InSeq(pass'.snap, User(c))]_vars

\* A callback was registered and removed by its handle, other listeners are
\* still registered, and a later notification invoked them and not it.
C9_Witness ==
  \E r \in RegistryNames, c \in Callbacks :
    /\ <<r, c>> \in handles
    /\ ~InSeq(Registry(r), User(c))
    /\ Len(Registry(r)) > 0
    /\ ~pass.active /\ pass.kind = NotificationKind(r)
    /\ Len(invoked) > 0 /\ ~Invoked(User(c))

\* C10: the callbacks a pass has invoked so far are the first entries of its
\* own registry as it was when the notification arrived, in registration
\* order, each once and each with the notification's payload; a finished pass
\* has invoked them all; and a notification begins only when the pass of the
\* one before has finished.
C10_FanOutInRegistrationOrder ==
  /\ [](pass.kind /= "none" =>
          LET reg == StartRegistry(pass.kind)
          IN  /\ Len(invoked) <= Len(reg)
              /\ \A i \in 1..Len(invoked) :
                   invoked[i].cb = reg[i] /\ invoked[i].arg = nNotifs
              /\ ~pass.active => Len(invoked) = Len(reg))
  /\ [][nNotifs' /= nNotifs => (~pass.active /\ pass'.data.serial = nNotifs + 1)]_vars

\* The second notification, a message, went to the two message listeners in
\* registration order, once each, while another registry held a listener too.
C10_Witness ==
  /\ ~pass.active /\ pass.kind = "message" /\ nNotifs = 2
  /\ Len(invoked) = 2 /\ invoked[1].cb /= invoked[2].cb
  /\ onMessageCallbacks = <<invoked[1].cb, invoked[2].cb>>
  /\ Len(onConnectCallbacks) + Len(onDisconnectCallbacks) + Len(onErrorCallbacks) = 1
\* C11: a transport failure notification goes to the error listeners
\* registered when it arrived, each once and in order, and to no listener of
\* the message registry; neither its arrival nor any invocation of its pass
\* changes a registry, settles or rejects a sendAndWaitReply call, moves a
\* subscribe call on, or raises an error.
C11_TransportErrorNotifiesErrorListenersOnly ==
  /\ [](pass.kind = "error" =>
          /\ Len(invoked) <= Len(pass.start[4])
          /\ \A i \in 1..Len(invoked) :
               invoked[i].cb.kind = "user" /\ invoked[i].cb = pass.start[4][i]
          /\ ~pass.active => Len(invoked) = Len(pass.start[4]))
  /\ [][(SocketOnError \/ (pass.kind = "error" /\ forEachStep)) =>
          (registries' = registries /\ calls' = calls /\ subs' = subs
             /\ raised' = raised)]_vars

\* A failure notification has gone to two error listeners while a request
\* was pending with its temporary listener registered.
C11_Witness ==
  /\ pass.kind = "error" /\ ~pass.active /\ Len(invoked) = 2
  /\ \E k \in CallIds :
       calls[k].st = "pending" /\ InSeq(onMessageCallbacks, Temp(k))
\* C12: close() changes no registry (temporary reply listeners and
\* subscription listeners stay), settles or rejects no call, moves no
\* subscribe on and hands nothing to the transport; the same holds for the
\* arrival of the close notification and for every invocation of its pass,
\* which goes to the disconnect listeners registered at its arrival only.
C12_CloseOnlyClosesTransport ==
  /\ [][(Close \/ SocketOnClose \/ (pass.kind = "close" /\ forEachStep)) =>
          (registries' = registries /\ calls' = calls /\ subs' = subs
             /\ sent' = sent /\ raised' = raised)]_vars
  /\ [][Close => closed']_vars
  /\ [](pass.kind = "close" =>
          /\ Len(invoked) <= Len(pass.start[3])
          /\ \A i \in 1..Len(invoked) : invoked[i].cb = pass.start[3][i]
          /\ ~pass.active => Len(invoked) = Len(pass.start[3]))

\* After close() the close notification has gone to a disconnect listener
\* while a request is still pending with its temporary listener registered.
C12_Witness ==
  /\ closed /\ pass.kind = "close" /\ ~pass.active /\ Len(invoked) >= 1
  /\ \E k \in CallIds :
       calls[k].st = "pending" /\ InSeq(onMessageCallbacks, Temp(k))
\* C13: send(c) hands exactly one message, equal to c, to the transport and
\* changes nothing else: no call is created, no subscription, no registry
\* entry; and for every sendAndWaitReply call exactly one message was handed
\* to the transport on its behalf, its command.
C13_OneOutboundMessagePerSend ==
  /\ [][\A c \in Commands, ok \in BOOLEAN :
          send(c, ok) =>
            /\ Len(sent') = Len(sent) + 1
            /\ SubSeq(sent', 1, Len(sent)) = sent
            /\ sent'[Len(sent')].message = c
            /\ sent'[Len(sent')].call = 0
            /\ registries' = registries /\ calls' = calls /\ subs' = subs]_vars
  /\ [](\A k \in CallIds :
          /\ Cardinality({ i \in 1..Len(sent) : sent[i].call = k }) = 1
          /\ \A i \in 1..Len(sent) :
               sent[i].call = k => sent[i].message = calls[k].message)

\* A plain send and a request have each put one message on the transport,
\* the request has been answered and cleaned up.
C13_Witness ==
  /\ Len(sent) = 2 /\ Len(calls) = 1 /\ calls[1].st = "done"
  /\ \E i \in 1..2 : sent[i].call = 0 /\ sent[i].accepted
\* The message a subscribe call for the given argument puts on the wire.
SubscribeRequest(event) ==
  IF event.isArray THEN "subscribe -e focus,move" ELSE "subscribe -e focus"

\* C14: invoking the handle of a successful subscribe removes that
\* subscription's listener from the message registry, keeps every other
\* entry of the four registries and hands nothing to the transport; once the
\* handle has been invoked the listener stays out of the registry and the
\* pass of every message delivered from then on leaves the callback
\* uninvoked; and the only message a subscribe call ever hands to the
\* transport is its one 'subscribe -e <tags>' request.
C14_HandleDetachesLocalListenerOnly ==
  /\ [][\A s \in SubIds :
          UnlistenSub(s) =>
            /\ sent' = sent
            /\ onMessageCallbacks' =
                 SelectSeq(onMessageCallbacks, LAMBDA cb : cb /= Sub(s))
            /\ onConnectCallbacks' = onConnectCallbacks
            /\ onDisconnectCallbacks' = onDisconnectCallbacks
            /\ onErrorCallbacks' = onErrorCallbacks]_vars
  /\ [][\A s \in SubIds :
          (subs[s].unlistened /\ nNotifs' /= nNotifs) => ~InSeq(pass'.snap, Sub(s))]_vars
  /\ [](\A s \in SubIds :
          /\ subs[s].unlistened => ~InSeq(onMessageCallbacks, Sub(s))
          /\ (pass.kind = "message" /\ ~InSeq(pass.snap, Sub(s))) => Firings(s) = {}
          /\ \E i \in 1..Len(sent) :
               /\ sent[i].message = SubscribeRequest(subs[s].event)
               /\ \A j \in 1..Len(sent) : j /= i => sent[j].call /= subs[s].call)
  /\ [](Len(sent) = Len(subs))

\* After the handle was invoked an event of a requested type was delivered
\* and did not invoke the callback; the subscribe request is the only
\* message handed to the transport.
C14_Witness ==
  /\ Len(subs) = 1 /\ subs[1].unlistened /\ Len(sent) = 1
  /\ pass.kind = "message" /\ ~pass.active
  /\ pass.data.messageType = "subscribed_event"
  /\ pass.data.data.type \in Requested(subs[1].event)
  /\ fired = <<>>
\* C15: the address the socket was opened on is ws://localhost:<port> with
\* the port of the options the client was constructed with, ws://localhost:7000
\* for {port: 7000}, and ws://localhost:6123 when it was constructed without
\* options; it never changes afterwards.
C15_SocketTargetFromPort ==
  /\ ~options.given => url = "ws://localhost:6123"
  /\ options.given => url = "ws://localhost:" \o ToString(options.port)
  /\ (options.given /\ options.port = 7000) => url = "ws://localhost:7000"

\* A client constructed with {port: 7000} has been used: its socket was
\* opened on ws://localhost:7000.
C15_Witness ==
  /\ options.given /\ options.port = 7000 /\ url = "ws://localhost:7000"
  /\ Len(sent) >= 1 /\ closed
\* C16 as claimed: whenever a message is handed to the transport on behalf
\* of a sendAndWaitReply call, that call's temporary listener is already in
\* the message registry.
C16_ListenerRegisteredBeforeSend ==
  \A i \in 1..Len(sent) : sent[i].call /= 0 => sent[i].listening
\* C17: a sendAndWaitReply call whose command the transport accepted, and
\* for which no client_response with its command has been delivered since,
\* is pending and has its temporary listener in the message registry exactly
\* once, whatever else has happened: other requests and subscriptions,
\* messages, registrations, handles, transport failures, close.
C17_PendingCallNeverAbandoned ==
  \A k \in CallIds :
    ((\E i \in 1..Len(sent) : sent[i].call = k /\ sent[i].accepted)
       /\ calls[k].firstMatch = 0) =>
      /\ calls[k].st = "pending"
      /\ Cardinality({ i \in 1..Len(onMessageCallbacks) :
                         onMessageCallbacks[i] = Temp(k) }) = 1

\* A request is still pending, its listener registered, after close() and two
\* notifications none of which was its reply, the last a transport failure.
C17_Witness ==
  /\ closed /\ nNotifs = 2 /\ pass.kind = "error" /\ ~pass.active
  /\ \E k \in CallIds :
       /\ calls[k].st = "pending" /\ calls[k].firstMatch = 0
       /\ InSeq(onMessageCallbacks, Temp(k))

\* C18: a pass works on the registry as it was when its notification
\* arrived, whatever the callbacks it invokes register or unregister
\* meanwhile: the entries it goes through are those of that moment, and when
\* it has finished the callbacks it invoked are exactly those, in order, none
\* skipped, none twice, none added; and neither the arrival of a
\* notification nor an iteration of the pass changes a registry.
C18_DispatchWorksOnSnapshot ==
  /\ [](pass.kind /= "none" =>
          /\ pass.snap = StartRegistry(pass.kind)
          /\ ~pass.active =>
               [i \in 1..Len(invoked) |-> invoked[i].cb] = StartRegistry(pass.kind))
  /\ [][(forEachStep \/ nNotifs' /= nNotifs) => registries' = registries]_vars

\* During the pass over two message listeners the first callback
\* unregistered the second and registered itself again; the pass still
\* invoked the two listeners it started with, and only them.
C18_Witness ==
  /\ ~pass.active /\ pass.kind = "message"
  /\ pass.start[1] = <<User(1), User(2)>>
  /\ onMessageCallbacks = <<User(1), User(1)>>
  /\ Len(invoked) = 2 /\ invoked[1].cb = User(1) /\ invoked[2].cb = User(2)
\* The subscriptions a finished or running pass over message listeners
\* started with, and whose requested set holds the tag of its event.
Addressed ==
  { s \in SubIds :
      /\ InSeq(pass.snap, Sub(s))
      /\ pass.data.messageType = "subscribed_event"
      /\ pass.data.data.type \in Requested(subs[s].event) }

\* C19: every successful subscribe call has a listener of its own in the
\* message registry, also when another call used the same callback; when the
\* pass of an event has ended the callback was invoked once for each
\* subscription whose set holds the event's tag, so twice for two
\* subscriptions sharing the callback and the tag; and invoking the handle
\* of one subscription leaves the listener of every other one registered.
C19_OverlappingSubscriptionsIndependent ==
  /\ [](\A s \in SubIds :
          (subs[s].st = "subscribed" /\ ~subs[s].unlistened) =>
            Cardinality({ i \in 1..Len(onMessageCallbacks) :
                            onMessageCallbacks[i] = Sub(s) }) = 1)
  /\ []((pass.kind = "message" /\ ~pass.active) =>
          /\ Len(fired) = Cardinality(Addressed)
          /\ \A s \in Addressed : Cardinality(Firings(s)) = 1)
  /\ [][\A s \in SubIds :
          UnlistenSub(s) =>
            \A t \in SubIds \ {s} :
              InSeq(onMessageCallbacks, Sub(t)) => InSeq(onMessageCallbacks', Sub(t))]_vars

\* Two subscriptions with different but overlapping sets share a callback; an
\* event in the overlap invoked it once for each, although the first
\* invocation used the handle of the first subscription: the second is still
\* registered.
C19_Witness ==
  /\ Len(subs) = 2 /\ subs[1].event /= subs[2].event
  /\ subs[1].callback = subs[2].callback
  /\ pass.kind = "message" /\ ~pass.active
  /\ Len(fired) = 2 /\ fired[1].sub = 1 /\ fired[2].sub = 2
  /\ subs[1].unlistened /\ onMessageCallbacks = <<Sub(2)>>
\* C20: while a subscribe call awaits its reply its listener is in no
\* registry and in no pass, its callback is not invoked, and as long as the
\* request is pending the call's only entry in the message registry is the
\* temporary reply listener; whenever the callback is invoked, the call has
\* received a client_response to its own request without an error, and the
\* event was delivered after that response.
C20_CallbackOnlyAfterSuccessfulReply ==
  /\ \A s \in SubIds :
       subs[s].st = "awaiting" =>
         /\ ~InSeq(onMessageCallbacks, Sub(s))
         /\ ~InSeq(pass.snap, Sub(s))
         /\ Firings(s) = {}
         /\ calls[subs[s].call].st = "pending" =>
              Cardinality({ i \in 1..Len(onMessageCallbacks) :
                              onMessageCallbacks[i] = Temp(subs[s].call) }) = 1
  /\ \A s \in SubIds :
       Firings(s) /= {} =>
         LET reply == calls[subs[s].call].val
         IN  /\ IsReplyTo(reply, subs[s].command)
             /\ ~truthy(reply.error)
             /\ reply.serial < pass.data.serial

\* An event of a requested type was delivered while the subscribe request
\* was pending: the temporary reply listener saw it, the callback did not.
C20_Witness ==
  /\ Len(subs) = 1 /\ subs[1].st = "awaiting" /\ calls[subs[1].call].st = "pending"
  /\ pass.kind = "message" /\ ~pass.active
  /\ pass.data.messageType = "subscribed_event"
  /\ pass.data.data.type \in Requested(subs[1].event)
  /\ Len(invoked) = 1 /\ invoked[1].cb = Temp(subs[1].call)
  /\ fired = <<>>
====
